---- MODULE Spec2Model ----
(***************************************************************************)
(* Model of perfect-scale (src/src/app.rs): the Application aggregate      *)
(* (surface configuration, stored size), Application::new, resize, render, *)
(* and the event-loop callback of run().                                   *)
(*                                                                         *)
(* The window system (winit) and the GPU backend (wgpu) are the            *)
(* environment.  winit delivers events in passes: window events, then      *)
(* MainEventsCleared, then RedrawRequested for the windows with a pending  *)
(* redraw, then RedrawEventsCleared; a control flow of Exit is sticky and  *)
(* ends the loop (LoopDestroyed) at the end of the pass in which it was    *)
(* set.  wgpu decides the outcome of every frame acquisition.              *)
(***************************************************************************)
EXTENDS Integers, Sequences, FiniteSets

VARIABLES
    pc,             \* "start" | "loop" | "exited" | "failed": position in run()
    phase,          \* position of the event loop inside the current pass
    control_flow,   \* the event loop's ControlFlow ("Poll" | "Exit", Exit is sticky)
    cb_flow,        \* value the callback left in *control_flow on its last return
    size,           \* Application.size
    config,         \* Application.config (width, height)
    surface,        \* configuration last passed to surface.configure
    ops,            \* calls made by the last callback invocation (or by new)
    event,          \* event handed to the last callback invocation
    result,         \* outcome of the frame acquisition of the last render
    redraw_pending, \* window.request_redraw() called and not yet served
    error,          \* error returned by run(), "none" while there is none
    esc_seen,       \* history: an Escape press on the owned window was handled
    oom_seen,       \* history: a render failed with OutOfMemory
    since_oom,      \* history: the callback ran again after that render
    outstanding,    \* frames acquired and not yet presented when the last handler returned
    peak_frames,    \* most frames held at once during the last handler
    returned,       \* value returned by the last call of render
    visible,        \* visibility of the window
    caps_formats,   \* surface_caps.formats, as the adapter reports them
    format,         \* Application.config.format
    expected_size   \* history: startup size, then the last accepted resize event

vars == <<pc, phase, control_flow, cb_flow, size, config, surface, ops, event,
          result, redraw_pending, error, esc_seen, oom_seen, since_oom,
          outstanding, peak_frames, returned, visible, caps_formats, format,
          expected_size>>

----------------------------------------------------------------------------
(* Bounds *)

\* largest width or height the window system reports
MaxDim == 2

Dims == 0..MaxDim

\* the window created by run() and one window that is not ours
\* longest list of surface formats the adapter reports
MaxFormats == 2

OwnedId == 1
OtherId == 2
WindowIds == {OwnedId, OtherId}

----------------------------------------------------------------------------
(* Values *)

PhysicalSize(w, h) == [width |-> w, height |-> h]

Sizes == {PhysicalSize(w, h) : w \in Dims, h \in Dims}

NoSize == PhysicalSize(0 - 1, 0 - 1)

\* wgpu::SurfaceError, plus "Ok" for a successful acquisition
SurfaceErrors == {"Timeout", "Outdated", "Lost", "OutOfMemory"}
SurfaceResults == {"Ok"} \cup SurfaceErrors

\* one call made by a handler, with the size it was made with (0, 0 if none)
Op(name, w, h) == [op |-> name, width |-> w, height |-> h]

OpsNamed(s, name) == SelectSeq(s, LAMBDA o : o.op = name)

HasOp(s, name) == Len(OpsNamed(s, name)) > 0

\* the calls that touch the surface or the queue
FrameOpNames == {"configure", "acquire", "submit", "present"}

FrameOps(s) == SelectSeq(s, LAMBDA o : o.op \in FrameOpNames)

\* winit events, flattened into one record shape
Ev(type, wid, kind, st, key, w, h) ==
    [type |-> type, window_id |-> wid, kind |-> kind, state |-> st,
     key |-> key, width |-> w, height |-> h]

NoEvent == Ev("None", 0, "None", "None", "None", 0, 0)

ElementStates == {"Pressed", "Released"}
\* virtual_keycode: Some(Escape), Some(another key) or None
KeyCodes == {"Escape", "A", "None"}

WindowEvents ==
    {Ev("WindowEvent", wid, "CloseRequested", "None", "None", 0, 0) : wid \in WindowIds}
    \cup {Ev("WindowEvent", wid, "Focused", "None", "None", 0, 0) : wid \in WindowIds}
    \cup {Ev("WindowEvent", wid, "KeyboardInput", st, k, 0, 0) :
            wid \in WindowIds, st \in ElementStates, k \in KeyCodes}
    \cup {Ev("WindowEvent", wid, kind, "None", "None", w, h) :
            wid \in WindowIds, kind \in {"Resized", "ScaleFactorChanged"},
            w \in Dims, h \in Dims}

RedrawRequested(wid) == Ev("RedrawRequested", wid, "None", "None", "None", 0, 0)

MainEventsCleared == Ev("MainEventsCleared", 0, "None", "None", "None", 0, 0)
RedrawEventsCleared == Ev("RedrawEventsCleared", 0, "None", "None", "None", 0, 0)
NewEvents == Ev("NewEvents", 0, "None", "None", "None", 0, 0)
LoopDestroyed == Ev("LoopDestroyed", 0, "None", "None", "None", 0, 0)

----------------------------------------------------------------------------
(* Application: the state a handler reads and writes, as one record *)

AppState == [size |-> size, config |-> config, surface |-> surface,
             ops |-> <<>>, flow |-> "Poll", redraw |-> redraw_pending,
             result |-> "None", frames |-> outstanding, peak |-> outstanding,
             returned |-> "None"]

\* surface.configure(&device, &config)
Configure(a) ==
    [a EXCEPT !.surface = a.config,
              !.ops = Append(a.ops, Op("configure", a.config.width, a.config.height))]

\* the guard with || in place of &&
ResizeAcceptsEither(new_size) == new_size.width > 0 \/ new_size.height > 0

\* the guard of Application::resize
ResizeAccepts(new_size) == new_size.width > 0 /\ new_size.height > 0

\* resize that stores the new size but does not reapply the configuration
ResizeWithoutConfigure(a, new_size) ==
    LET called == [a EXCEPT !.ops = Append(a.ops, Op("resize", new_size.width, new_size.height))]
    IN  IF ResizeAccepts(new_size)
        THEN [called EXCEPT !.size = new_size,
                            !.config = PhysicalSize(new_size.width, new_size.height)]
        ELSE called

\* resize that forgets self.size = new_size
ResizeKeepsSize(a, new_size) ==
    LET called == [a EXCEPT !.ops = Append(a.ops, Op("resize", new_size.width, new_size.height))]
    IN  IF ResizeAccepts(new_size)
        THEN Configure([called EXCEPT !.config = PhysicalSize(new_size.width, new_size.height)])
        ELSE called

\* Application::resize
Resize(a, new_size) ==
    LET called == [a EXCEPT !.ops = Append(a.ops, Op("resize", new_size.width, new_size.height))]
    IN  IF ResizeAccepts(new_size)
        THEN Configure([called EXCEPT !.size = new_size,
                                      !.config = PhysicalSize(new_size.width, new_size.height)])
        ELSE called

\* Application::input
Input(a, ev) == FALSE

\* Application::update
Update(a) == [a EXCEPT !.ops = Append(a.ops, Op("update", 0, 0))]

\* surface.get_current_texture(): on success the caller holds one more frame
Acquire(a, res) ==
    LET held == IF res = "Ok" THEN a.frames + 1 ELSE a.frames
    IN  [a EXCEPT !.ops = Append(a.ops, Op("acquire", 0, 0)),
                  !.result = res,
                  !.frames = held,
                  !.peak = IF held > a.peak THEN held ELSE a.peak]

\* queue.submit(once(encoder.finish())): the command buffer with the clear pass
Submit(a) == [a EXCEPT !.ops = Append(a.ops, Op("submit", 0, 0))]

\* output.present(): the frame is consumed
Present(a) ==
    [a EXCEPT !.ops = Append(a.ops, Op("present", 0, 0)), !.frames = a.frames - 1]

\* render that submits and returns Ok without presenting, the frame kept
RenderKeepsFrame(a, res) ==
    LET acquired == Acquire(a, res)
    IN  IF res # "Ok"
        THEN [acquired EXCEPT !.returned = res]
        ELSE [Submit(acquired) EXCEPT !.returned = "Ok"]

\* render that presents the frame before the command buffer is submitted
RenderPresentsFirst(a, res) ==
    LET acquired == Acquire(a, res)
    IN  IF res # "Ok"
        THEN [acquired EXCEPT !.returned = res]
        ELSE [Submit(Present(acquired)) EXCEPT !.returned = "Ok"]

\* Application::render, res being the outcome of surface.get_current_texture()
Render(a, res) ==
    LET acquired == Acquire(a, res)
    IN  IF res # "Ok"
        THEN [acquired EXCEPT !.returned = res]
        ELSE [Present(Submit(acquired)) EXCEPT !.returned = "Ok"]

----------------------------------------------------------------------------
(* The callback passed to event_loop.run *)

\* the key pattern without the state: Pressed field
IsExitEventAnyState(ev) ==
    \/ ev.kind = "CloseRequested"
    \/ ev.kind = "KeyboardInput" /\ ev.key = "Escape"

\* the pattern of the first inner match arm: CloseRequested, or
\* KeyboardInput { state: Pressed, virtual_keycode: Some(Escape) }
IsExitEvent(ev) ==
    \/ ev.kind = "CloseRequested"
    \/ ev.kind = "KeyboardInput" /\ ev.state = "Pressed" /\ ev.key = "Escape"

\* the inner match without the ScaleFactorChanged arm
OnWindowEventNoScaleArm(a, ev) ==
    IF IsExitEvent(ev) THEN [a EXCEPT !.flow = "Exit"]
    ELSE IF ev.kind = "Resized" THEN Resize(a, PhysicalSize(ev.width, ev.height))
    ELSE a

\* the inner match on a window event of the owned window
OnWindowEvent(a, ev) ==
    IF IsExitEvent(ev) THEN [a EXCEPT !.flow = "Exit"]
    ELSE IF ev.kind = "Resized" THEN Resize(a, PhysicalSize(ev.width, ev.height))
    ELSE IF ev.kind = "ScaleFactorChanged" THEN Resize(a, PhysicalSize(ev.width, ev.height))
    ELSE a

\* the match without the OutOfMemory arm: the error falls to the catch-all
OnRenderResultNoOomArm(a, res) ==
    IF res = "Ok" THEN a
    ELSE IF res = "Lost" THEN Resize(a, a.size)
    ELSE [a EXCEPT !.ops = Append(a.ops, Op("log", 0, 0))]

\* the match with Lost in the fatal arm next to OutOfMemory
OnRenderResultLostFatal(a, res) ==
    IF res = "Ok" THEN a
    ELSE IF res = "Lost" \/ res = "OutOfMemory" THEN [a EXCEPT !.flow = "Exit"]
    ELSE [a EXCEPT !.ops = Append(a.ops, Op("log", 0, 0))]

\* the match with Outdated in the recovery arm next to Lost
OnRenderResultOutdatedResizes(a, res) ==
    IF res = "Ok" THEN a
    ELSE IF res = "Lost" \/ res = "Outdated" THEN Resize(a, a.size)
    ELSE IF res = "OutOfMemory" THEN [a EXCEPT !.flow = "Exit"]
    ELSE [a EXCEPT !.ops = Append(a.ops, Op("log", 0, 0))]

\* the match on the value returned by app.render()
OnRenderResult(a, res) ==
    IF res = "Ok" THEN a
    ELSE IF res = "Lost" THEN Resize(a, a.size)
    ELSE IF res = "OutOfMemory" THEN [a EXCEPT !.flow = "Exit"]
    ELSE [a EXCEPT !.ops = Append(a.ops, Op("log", 0, 0))]

\* the RedrawRequested arm: update, render, then the match on the result
OnRedrawRequested(a, res) ==
    LET rendered == Render(Update(a), res)
    IN  OnRenderResult(rendered, rendered.returned)

\* the MainEventsCleared arm without the request_redraw call
OnMainEventsClearedNoRequest(a) == a

\* the MainEventsCleared arm: app.window().request_redraw()
OnMainEventsCleared(a) ==
    [a EXCEPT !.redraw = TRUE, !.ops = Append(a.ops, Op("request_redraw", 0, 0))]

\* the closure without the window_id == app.window().id() guards
CallbackAnyWindow(a, ev, res) ==
    LET polled == [a EXCEPT !.flow = "Poll", !.ops = <<>>, !.result = "None",
                            !.returned = "None", !.peak = a.frames]
    IN  IF ev.type = "WindowEvent" /\ ~Input(polled, ev)
        THEN OnWindowEvent(polled, ev)
        ELSE IF ev.type = "RedrawRequested"
        THEN OnRedrawRequested(polled, res)
        ELSE IF ev.type = "MainEventsCleared"
        THEN OnMainEventsCleared(polled)
        ELSE polled

\* one invocation of the closure: control_flow.set_poll(), then the outer match
Callback(a, ev, res) ==
    LET polled == [a EXCEPT !.flow = "Poll", !.ops = <<>>, !.result = "None",
                            !.returned = "None", !.peak = a.frames]
    IN  IF ev.type = "WindowEvent" /\ ev.window_id = OwnedId /\ ~Input(polled, ev)
        THEN OnWindowEvent(polled, ev)
        ELSE IF ev.type = "RedrawRequested" /\ ev.window_id = OwnedId
        THEN OnRedrawRequested(polled, res)
        ELSE IF ev.type = "MainEventsCleared"
        THEN OnMainEventsCleared(polled)
        ELSE polled

\* an event loop that keeps whatever the closure wrote
OverwrittenFlow(before, after) == after

\* the control flow the event loop keeps after a callback returned: winit
\* hands the closure a scratch copy once Exit is set, so Exit is never undone
StickyFlow(before, after) == IF before = "Exit" THEN "Exit" ELSE after

----------------------------------------------------------------------------
(* History *)

IsEscapePress(ev) ==
    /\ ev.type = "WindowEvent" /\ ev.window_id = OwnedId
    /\ ev.kind = "KeyboardInput" /\ ev.state = "Pressed" /\ ev.key = "Escape"

IsCloseRequest(ev) ==
    ev.type = "WindowEvent" /\ ev.window_id = OwnedId /\ ev.kind = "CloseRequested"

\* a resize or scale-factor-change event of the owned window with a non-zero area
AcceptedResize(ev) ==
    /\ ev.type = "WindowEvent" /\ ev.window_id = OwnedId
    /\ ev.kind \in {"Resized", "ScaleFactorChanged"}
    /\ ev.width > 0 /\ ev.height > 0

----------------------------------------------------------------------------
(* Actions *)

\* wgpu::TextureFormat values a surface may report
Formats == {"Bgra8Unorm", "Bgra8UnormSrgb", "Rgba8UnormSrgb"}

\* TextureFormat::is_srgb
IsSrgb(f) == f \in {"Bgra8UnormSrgb", "Rgba8UnormSrgb"}

NoFormat == "None"

\* the non-empty capability lists of at most MaxFormats formats
FormatLists == UNION {[1..n -> Formats] : n \in 1..MaxFormats}

\* the list the adapter reports in the runs of the event loop
ReportedFormats == <<"Bgra8Unorm", "Bgra8UnormSrgb">>

\* the selection without the is_srgb filter
SelectFormatFirstReported(formats) == formats[1]

\* formats.iter().copied().filter(|f| f.is_srgb()).next().unwrap_or(formats[0])
SelectFormat(formats) ==
    LET srgb == SelectSeq(formats, IsSrgb)
    IN  IF Len(srgb) > 0 THEN Head(srgb) ELSE formats[1]

InitFor(lists) ==
    /\ pc = "start"
    /\ phase = "none"
    /\ control_flow = "Poll"
    /\ cb_flow = "Poll"
    /\ size = NoSize
    /\ config = NoSize
    /\ surface = NoSize
    /\ ops = <<>>
    /\ event = NoEvent
    /\ result = "None"
    /\ redraw_pending = FALSE
    /\ error = "none"
    /\ esc_seen = FALSE
    /\ oom_seen = FALSE
    /\ since_oom = FALSE
    /\ outstanding = 0
    /\ peak_frames = 0
    /\ returned = "None"
    /\ visible = FALSE
    /\ caps_formats \in lists
    /\ format = NoFormat
    /\ expected_size = NoSize

Init == InitFor({ReportedFormats})

\* the body of Application::new once adapter and device are there, for a
\* window whose inner_size() is new_size
New(new_size, formats) ==
    Configure([size |-> new_size,
               config |-> PhysicalSize(new_size.width, new_size.height),
               format |-> SelectFormat(formats),
               surface |-> NoSize, ops |-> <<>>, flow |-> "Poll",
               redraw |-> FALSE, result |-> "None", frames |-> 0, peak |-> 0,
               returned |-> "None", error |-> "none"])

\* the errors Application::new returns with ?
NewErrors == {"CreateSurface", "NoAdapterFound", "RequestDevice"}

\* Application::new that configures the surface before it asks for the device
TryNewConfiguresFirst(new_size, formats, outcome) ==
    IF outcome = "CreateSurface" \/ outcome = "NoAdapterFound"
    THEN [surface |-> NoSize, ops |-> <<>>, error |-> outcome]
    ELSE [New(new_size, formats) EXCEPT !.error = IF outcome = "Ok" THEN "none" ELSE outcome]

\* Application::new, outcome naming the first step that fails ("Ok" if none):
\* create_surface, request_adapter and request_device come before the
\* configuration is built and applied
TryNew(new_size, formats, outcome) ==
    IF outcome \in NewErrors
    THEN [surface |-> NoSize, ops |-> <<>>, error |-> outcome]
    ELSE New(new_size, formats)

\* run() up to event_loop.run: the window is built hidden (with_visible(false)),
\* Application::new succeeds
Startup ==
    /\ pc = "start"
    /\ \E new_size \in Sizes :
         LET a == TryNew(new_size, caps_formats, "Ok")
         IN  /\ a.error = "none"
             /\ size' = a.size
             /\ config' = a.config
             /\ format' = a.format
             /\ surface' = a.surface
             /\ ops' = a.ops
             /\ expected_size' = new_size
    /\ visible' = FALSE
    /\ pc' = "loop"
    /\ phase' = "end"
    /\ UNCHANGED <<control_flow, cb_flow, event, result, redraw_pending, error,
                   esc_seen, oom_seen, since_oom, outstanding, peak_frames,
                   returned, caps_formats>>

\* the ? operators of run() and Application::new: the error is returned
StartupErrors == {"WindowBuild"} \cup NewErrors

\* run() returns the error of WindowBuilder::build or of Application::new;
\* no Application is constructed
StartupFails ==
    /\ pc = "start"
    /\ \/ /\ error' = "WindowBuild"
          /\ UNCHANGED <<surface, ops>>
       \/ \E new_size \in Sizes, outcome \in NewErrors :
            LET a == TryNew(new_size, caps_formats, outcome)
            IN  /\ a.error # "none"
                /\ error' = a.error
                /\ surface' = a.surface
                /\ ops' = a.ops
    /\ pc' = "failed"
    /\ UNCHANGED <<phase, control_flow, cb_flow, size, config,
                   event, result, redraw_pending, esc_seen, oom_seen, since_oom,
                   outstanding, peak_frames, returned, visible, caps_formats,
                   format, expected_size>>

\* the event loop calls the closure with ev; res is what the surface
\* answers if the closure acquires a frame
Dispatch(ev, res, pending) ==
    LET a == Callback([AppState EXCEPT !.redraw = pending], ev, res)
    IN  /\ pc = "loop"
        /\ size' = a.size
        /\ config' = a.config
        /\ surface' = a.surface
        /\ ops' = a.ops
        /\ result' = a.result
        /\ redraw_pending' = a.redraw
        /\ cb_flow' = a.flow
        /\ control_flow' = StickyFlow(control_flow, a.flow)
        /\ event' = ev
        /\ esc_seen' = (esc_seen \/ IsEscapePress(ev))
        /\ oom_seen' = (oom_seen \/ a.result = "OutOfMemory")
        /\ since_oom' = oom_seen
        /\ error' = error
        /\ outstanding' = a.frames
        /\ peak_frames' = a.peak
        /\ returned' = a.returned
        /\ expected_size' = IF AcceptedResize(ev)
                             THEN PhysicalSize(ev.width, ev.height)
                             ELSE expected_size
        /\ UNCHANGED <<visible, caps_formats, format>>

NewEventsArrives ==
    /\ phase = "end" /\ control_flow # "Exit"
    /\ Dispatch(NewEvents, "None", redraw_pending)
    /\ phase' = "events"
    /\ pc' = pc

WindowEventArrives ==
    /\ phase = "events"
    /\ \E ev \in WindowEvents : Dispatch(ev, "None", redraw_pending)
    /\ UNCHANGED <<pc, phase>>

MainEventsClearedArrives ==
    /\ phase = "events"
    /\ Dispatch(MainEventsCleared, "None", redraw_pending)
    /\ phase' = "redraw"
    /\ pc' = pc

\* the pending redraw of the owned window is served
RedrawOwned ==
    /\ phase = "redraw" /\ redraw_pending
    /\ \E res \in SurfaceResults : Dispatch(RedrawRequested(OwnedId), res, FALSE)
    /\ UNCHANGED <<pc, phase>>

RedrawOther ==
    /\ phase = "redraw"
    /\ Dispatch(RedrawRequested(OtherId), "None", redraw_pending)
    /\ UNCHANGED <<pc, phase>>

RedrawEventsClearedArrives ==
    /\ phase = "redraw"
    /\ Dispatch(RedrawEventsCleared, "None", redraw_pending)
    /\ phase' = "end"
    /\ pc' = pc

\* the pass ended with the control flow at Exit: last event, then the loop stops
LoopDestroyedArrives ==
    /\ phase = "end" /\ control_flow = "Exit"
    /\ Dispatch(LoopDestroyed, "None", redraw_pending)
    /\ phase' = "none"
    /\ pc' = "exited"

Next ==
    \/ Startup
    \/ StartupFails
    \/ NewEventsArrives
    \/ WindowEventArrives
    \/ MainEventsClearedArrives
    \/ RedrawOwned
    \/ RedrawOther
    \/ RedrawEventsClearedArrives
    \/ LoopDestroyedArrives

Spec == Init /\ [][Next]_vars

\* Startup alone, for every capability list the adapter may report
FormatInit == InitFor(FormatLists)

FormatNext ==
    \/ Startup
    \/ StartupFails

FormatSpec == FormatInit /\ [][FormatNext]_vars

\* The window system keeps delivering passes (every pass is begun, reaches
\* its all-events-processed signal and is closed) and honours redraw
\* requests (a redraw that is requested again and again is served).
FairSpec ==
    /\ Spec
    /\ WF_vars(NewEventsArrives)
    /\ WF_vars(MainEventsClearedArrives)
    /\ WF_vars(RedrawEventsClearedArrives)
    /\ WF_vars(LoopDestroyedArrives)
    /\ SF_vars(RedrawOwned)

----------------------------------------------------------------------------
(* Types *)

TypeOK ==
    /\ pc \in {"start", "loop", "exited", "failed"}
    /\ phase \in {"none", "events", "redraw", "end"}
    /\ control_flow \in {"Poll", "Exit"}
    /\ cb_flow \in {"Poll", "Exit"}
    /\ size \in Sizes \cup {NoSize}
    /\ config \in Sizes \cup {NoSize}
    /\ surface \in Sizes \cup {NoSize}
    /\ result \in SurfaceResults \cup {"None"}
    /\ redraw_pending \in BOOLEAN
    /\ error \in StartupErrors \cup {"none"}
    /\ outstanding \in 0..1
    /\ peak_frames \in 0..1
    /\ returned \in SurfaceResults \cup {"None"}
    /\ visible \in BOOLEAN
    /\ caps_formats \in FormatLists
    /\ format \in Formats \cup {NoFormat}
    /\ expected_size \in Sizes \cup {NoSize}

----------------------------------------------------------------------------
(* Properties *)

IsResizeEvent(ev) ==
    ev.type = "WindowEvent" /\ ev.kind \in {"Resized", "ScaleFactorChanged"}

OwnedRedrawWith(ev, res, kinds) == ev = RedrawRequested(OwnedId) /\ res \in kinds

\* C1: once a render has failed with OutOfMemory the driver is Exiting, and
\* no callback invocation after that one acquires, submits, presents,
\* resizes or reconfigures.
C1_NoFrameOpAfterOutOfMemory ==
    /\ oom_seen => control_flow = "Exit"
    /\ since_oom => Len(FrameOps(ops)) = 0 /\ ~HasOp(ops, "resize")

C1_Witness ==
    /\ since_oom
    /\ event = RedrawEventsCleared
    /\ control_flow = "Exit"

\* C2: after an Escape press on the owned window the driver is Exiting and
\* no callback invocation issues a redraw request any more.
C2_NoRedrawRequestAfterEscape ==
    esc_seen => control_flow = "Exit" /\ ~HasOp(ops, "request_redraw")

C4_AppliedConfigPositive ==
    \A i \in 1..Len(ops) :
        ops[i].op = "configure" => ops[i].width > 0 /\ ops[i].height > 0

\* C5: a resize or scale-factor-change event with a zero width or height
\* leaves the stored config, the stored size and the surface as they were,
\* and makes no configure call.
C5_ZeroResizeIsNoOp ==
    [][(IsResizeEvent(event') /\ (event'.width = 0 \/ event'.height = 0))
        => /\ config' = config
           /\ size' = size
           /\ surface' = surface
           /\ ~HasOp(ops', "configure")]_vars

C5_Witness ==
    /\ IsResizeEvent(event) /\ event.window_id = OwnedId
    /\ event.width > 0 /\ event.height = 0
    /\ HasOp(ops, "resize")
    /\ config # PhysicalSize(event.width, event.height)

\* C6: a resize or scale-factor-change event of the owned window with
\* width > 0 and height > 0 leaves exactly its width and height in the
\* stored config and in the configuration applied to the surface; and every
\* frame acquisition finds the surface configured with the stored config.
C6_PositiveResizeApplied ==
    [][/\ (IsResizeEvent(event') /\ event'.window_id = OwnedId
             /\ event'.width > 0 /\ event'.height > 0)
          => /\ config' = PhysicalSize(event'.width, event'.height)
             /\ surface' = PhysicalSize(event'.width, event'.height)
             /\ OpsNamed(ops', "configure")
                  = <<Op("configure", event'.width, event'.height)>>
       /\ HasOp(ops', "acquire") => surface = config]_vars

C6_Witness ==
    /\ IsResizeEvent(event) /\ event.window_id = OwnedId
    /\ event.width > 0 /\ event.height > 0
    /\ event.width # event.height
    /\ surface = PhysicalSize(event.width, event.height)
    /\ HasOp(ops, "configure")

\* C7: a render that fails with Lost is followed, in the same callback
\* invocation, by exactly one resize call, made with the stored size, and
\* the callback does not set the control flow to Exit.
C7_LostResizesOnce ==
    [][OwnedRedrawWith(event', result', {"Lost"})
        => /\ OpsNamed(ops', "resize") = <<Op("resize", size.width, size.height)>>
           /\ cb_flow' = "Poll"
           /\ control_flow' = control_flow]_vars

C7_Witness ==
    /\ OwnedRedrawWith(event, result, {"Lost"})
    /\ Len(OpsNamed(ops, "resize")) = 1
    /\ control_flow = "Poll"

\* C8: a render that fails with Lost is followed, in the same callback
\* invocation, by a configure call made with the stored size.
C8_LostAlwaysReconfigures ==
    OwnedRedrawWith(event, result, {"Lost"})
        => OpsNamed(ops, "configure") = <<Op("configure", size.width, size.height)>>

\* C9: a render that fails with Outdated or Timeout changes neither the
\* stored config, nor the stored size, nor the surface, calls nothing but
\* the log, and leaves the control flow as it was.
C9_TransientErrorChangesNothing ==
    [][OwnedRedrawWith(event', result', {"Outdated", "Timeout"})
        => /\ config' = config
           /\ size' = size
           /\ surface' = surface
           /\ ops' = <<Op("update", 0, 0), Op("acquire", 0, 0), Op("log", 0, 0)>>
           /\ cb_flow' = "Poll"
           /\ control_flow' = control_flow]_vars

C9_Witness ==
    /\ OwnedRedrawWith(event, result, {"Outdated", "Timeout"})
    /\ HasOp(ops, "log")
    /\ control_flow = "Poll"

\* C10: the callback sets the control flow to Exit only for a close request
\* on the owned window, an Escape press on the owned window, or a render
\* that failed with OutOfMemory.
C10_ExitOnlyByThreeCauses ==
    [][(cb_flow' = "Exit" \/ (control_flow = "Poll" /\ control_flow' = "Exit"))
        => \/ IsCloseRequest(event')
           \/ IsEscapePress(event')
           \/ OwnedRedrawWith(event', result', {"OutOfMemory"})]_vars

C10_Witness ==
    /\ cb_flow = "Exit"
    /\ control_flow = "Exit"
    /\ IsCloseRequest(event)


\* C11: a window event or a redraw tick of a window that is not the owned
\* one makes no call at all (no resize, configure, acquire, submit or
\* present), changes neither the stored size and config nor the surface,
\* and does not set the control flow to Exit.
C11_ForeignEventIgnored ==
    [][(event'.type \in {"WindowEvent", "RedrawRequested"} /\ event'.window_id # OwnedId)
        => /\ ops' = <<>>
           /\ size' = size
           /\ config' = config
           /\ surface' = surface
           /\ cb_flow' = "Poll"
           /\ control_flow' = control_flow]_vars

C11_Witness ==
    /\ event.type = "WindowEvent" /\ event.window_id = OtherId
    /\ event.kind = "Resized" /\ event.width > 0 /\ event.height > 0
    /\ config # PhysicalSize(event.width, event.height)
    /\ control_flow = "Poll"


\* C12: no frame is held when a handler returns, at most one frame is held
\* at any time inside it, and a render that acquired a frame presented it
\* exactly once, after the acquisition, with no second acquisition.
C12_AtMostOneFrameOutstanding ==
    /\ outstanding = 0
    /\ peak_frames <= 1
    /\ Len(OpsNamed(ops, "acquire")) <= 1
    /\ result = "Ok"
         => /\ Len(OpsNamed(ops, "present")) = 1
            /\ \E i, j \in 1..Len(ops) :
                 i < j /\ ops[i].op = "acquire" /\ ops[j].op = "present"
    /\ result # "Ok" => ~HasOp(ops, "present")

C12_Witness ==
    /\ event = RedrawRequested(OwnedId)
    /\ result = "Ok"
    /\ peak_frames = 1
    /\ outstanding = 0


\* C13: every all-events-processed signal issues exactly one redraw request
\* for the owned window; and, the window system delivering passes and
\* serving redraw requests, a render is attempted again and again for as
\* long as the driver is Running.
C13_ContinuousRendering ==
    /\ [][event' = MainEventsCleared
            => /\ OpsNamed(ops', "request_redraw") = <<Op("request_redraw", 0, 0)>>
               /\ redraw_pending']_vars
    /\ []<>(\/ pc # "loop"
            \/ control_flow = "Exit"
            \/ event = RedrawRequested(OwnedId) /\ HasOp(ops, "acquire"))

C13_Witness ==
    /\ event = MainEventsCleared
    /\ HasOp(ops, "request_redraw")
    /\ redraw_pending
    /\ control_flow = "Poll"


\* C14: when startup fails, run has returned one of the startup errors, no
\* configuration was applied to the surface, no call was made, no
\* Application exists and the event loop never delivered an event.
C14_FailedStartupLeavesNothing ==
    /\ error # "none" => pc = "failed"
    /\ pc = "failed"
         => /\ error \in StartupErrors
            /\ surface = NoSize
            /\ ops = <<>>
            /\ size = NoSize /\ config = NoSize /\ format = NoFormat
            /\ event = NoEvent /\ phase = "none"

C14_Witness ==
    /\ pc = "failed"
    /\ error = "RequestDevice"

\* C15: in every run that reaches the event loop the window is eventually
\* visible.
C15_WindowBecomesVisible == [](pc = "loop" => <>visible)

RenderOps(s) == SelectSeq(s, LAMBDA o : o.op \in {"acquire", "submit", "present"})

C17_RenderOrder ==
    event = RedrawRequested(OwnedId)
      => /\ ops[1].op = "update" /\ ops[2].op = "acquire"
         /\ IF result = "Ok"
            THEN /\ RenderOps(ops) = <<Op("acquire", 0, 0), Op("submit", 0, 0), Op("present", 0, 0)>>
                 /\ returned = "Ok"
            ELSE /\ RenderOps(ops) = <<Op("acquire", 0, 0)>>
                 /\ returned = result
                 /\ returned \in SurfaceErrors

C17_Witness ==
    /\ event = RedrawRequested(OwnedId)
    /\ returned = "Ok"
    /\ HasOp(ops, "submit")

\* C18: the stored config has the width and height of the most recent
\* resize or scale-factor-change event of the owned window whose width and
\* height are both > 0, or those of the startup window if there was none.
C18_ConfigIsLastAcceptedResize ==
    pc \in {"loop", "exited"} => config = expected_size

C18_Witness ==
    /\ IsResizeEvent(event) /\ event.window_id = OwnedId
    /\ event.width = 0 /\ event.height > 0
    /\ config = expected_size
    /\ config.width > 0 /\ config.height > 0

\* C19: once the application exists, the stored size, the stored config and
\* the configuration last applied to the surface have the same width and
\* height.
C19_SizeConfigSurfaceAgree ==
    pc \in {"loop", "exited"}
      => /\ size.width = config.width /\ size.height = config.height
         /\ surface = config

C19_Witness ==
    /\ OwnedRedrawWith(event, result, {"Lost"})
    /\ HasOp(ops, "configure")
    /\ size = config /\ surface = config

====
